---- MODULE Spec2Model ----
(***************************************************************************)
(* A model of the MinerU RAG demo: the chunk store builder and the vector  *)
(* index manager (rag_core.py, my_rag.py), the traced query handling and   *)
(* the provenance renderer of the Streamlit page (app.py), and the batch   *)
(* loop of the parsing CLI (mineru/cli/client.py).                         *)
(*                                                                         *)
(* Each part has a specification of its own over the shared variables:     *)
(*   Spec        initialization of the RAG system by one process           *)
(*   SpecApp     the chat page's rerun cycle and the tracer slot            *)
(*   SpecRender  render_trace_expander over bounded timelines              *)
(*   SpecCli     parse_doc over a bounded batch of documents               *)
(***************************************************************************)
EXTENDS Naturals, Integers, Sequences, FiniteSets, TLC

VARIABLES
    \* ---- RAG initialization (rag_core.py, my_rag.py) ----
    environ,       \* names of the environment values that are set and non-empty
    rawFile,       \* output/demo2/auto/demo2_content_list.json (NoFile or a list)
    enrichedFile,  \* output/demo2/auto/input.json (NoFile or a list)
    collection,    \* the records of the persistent "mineru_collection"
    proc,          \* per process: position and locals of the running entry point
    cache,         \* per process: what st.cache_resource holds for initialize_rag_system
    io,            \* the effects of the last step (labels)
    filled,        \* history: an index build has completed on the collection
    indexedFrom,   \* history: the enriched list the collection was populated from
    \* ---- chat page (app.py) ----
    messages,      \* st.session_state.messages
    slot,          \* Settings.callback_manager: the handlers it holds
    handlers,      \* every LlamaDebugHandler created: the event pairs it captured
    appPc,         \* position of the script run
    appLocal,      \* locals of the script run: prompt, llama_debug
    execNo,        \* history: number of query executions started
    \* ---- render_trace_expander (app.py) ----
    timeline,      \* event_pairs
    pdfBytes,      \* whether pdf_bytes is not None
    renderPc,      \* "build": the timeline is being captured; "rendered"
    durations,     \* what get_duration returned for each kind
    rendered,      \* the widgets written into the expander, in order
    \* ---- parsing CLI (mineru/cli/client.py) ----
    inputPath,     \* what input_path names: a directory or a file, and its documents
    cliPc,         \* position in main / parse_doc
    pathList,      \* path_list: the documents parse_doc was called with
    fileNames,     \* file_name_list: the documents read so far
    totalPages,    \* total_pages
    attempted,     \* history: the documents read_fn was called on
    logged,        \* history: the documents whose failure logger.exception recorded
    shown,         \* history: displayer.show announced the batch
    parsed,        \* history: the documents handed to do_parse
    \* ---- ProgressDisplayer (mineru/utils/user_display.py) ----
    enabled,        \* self.enabled
    currentMessage, \* self.current_message
    isMajorStep,    \* self.is_major_step
    updateThread,   \* self.update_thread: "None" or "thread"
    stopUpdate,     \* self.stop_update
    lock,           \* self.lock: "free" or its holder
    callerPc,       \* position of the thread that calls show() and success()
    callerArgs,     \* arguments of the call in progress
    threadPc,       \* position of the refresh thread in _update_display
    threadFlag,     \* refresh thread: the is_major_step it read for this repaint
    calls,          \* history: the show() calls made, in order
    created,        \* history: number of threads created
    joined,         \* history: how the join of the last success() ended
    printed,        \* history: the distinct lines written to the terminal
    wrote           \* what the last step wrote: "none", or who wrote

ragVars == <<environ, rawFile, enrichedFile, collection, proc, cache, io, filled, indexedFrom>>

appVars == <<messages, slot, handlers, appPc, appLocal, execNo>>

renderVars == <<timeline, pdfBytes, renderPc, durations, rendered>>

cliVars == <<inputPath, cliPc, pathList, fileNames, totalPages, attempted, logged, shown, parsed>>

displayVars ==
    <<enabled, currentMessage, isMajorStep, updateThread, stopUpdate, lock, callerPc,
      callerArgs, threadPc, threadFlag, calls, created, joined, printed, wrote>>

vars == <<ragVars, appVars, renderVars, cliVars, displayVars>>

otherThanRag == <<appVars, renderVars, cliVars, displayVars>>

otherThanApp == <<ragVars, renderVars, cliVars, displayVars>>

otherThanRender == <<ragVars, appVars, cliVars, displayVars>>

otherThanCli == <<ragVars, appVars, renderVars, displayVars>>

otherThanDisplay == <<ragVars, appVars, renderVars, cliVars>>

(***************************************************************************)
(* Bounds                                                                  *)
(***************************************************************************)
MaxItems == 2
MaxMessages == 5
MaxExecs == 3
MaxPairs == 2
MaxDocs == 3
MaxCalls == 3

(***************************************************************************)
(* Data                                                                    *)
(***************************************************************************)
\* A file is absent, or holds a JSON list.
NoFile == [exists |-> FALSE, data |-> <<>>]

File(d) == [exists |-> TRUE, data |-> d]

\* A text is a sequence of characters, so that strip() has something to do.
IsSpace(c) == c \in {" ", "\t", "\n"}

RECURSIVE LStrip(_)
LStrip(s) == IF s # <<>> /\ IsSpace(Head(s)) THEN LStrip(Tail(s)) ELSE s

RECURSIVE RStrip(_)
RStrip(s) ==
    IF s # <<>> /\ IsSpace(s[Len(s)]) THEN RStrip(SubSeq(s, 1, Len(s) - 1)) ELSE s

Strip(s) == RStrip(LStrip(s))

\* dict.get(key, default)
Get(item, key, default) == IF key \in DOMAIN item THEN item[key] ELSE default

\* The records a raw extraction file is drawn from.
\* a paragraph; a paragraph of white space only; a table that has a text and
\* already carries a chunk_id and no page.
TextItem  == [type |-> "text", text |-> <<"a", " ">>, page_idx |-> 0]
BlankItem == [type |-> "text", text |-> <<" ", "\n">>, page_idx |-> 0]
KeyedItem == [type |-> "table", text |-> <<"b">>, chunk_id |-> "chunk_0"]

RawItems == {TextItem, BlankItem, KeyedItem}

RawFiles == UNION {[1..n -> RawItems] : n \in 0..MaxItems}

LlmVars   == {"LLM_API_BASE", "LLM_API_KEY", "LLM_MODEL_NAME"}
EmbedVars == {"EMBED_API_BASE", "EMBED_API_KEY", "EMBED_MODEL_NAME"}
RequiredVars == LlmVars \cup EmbedVars

\* The environments tried: complete, one value missing, nothing set.
Environs == {RequiredVars} \cup {RequiredVars \ {v} : v \in RequiredVars} \cup {{}}

(***************************************************************************)
(* f"chunk_{i}"                                                            *)
(***************************************************************************)
DigitChar(d) ==
    CASE d = 0 -> "0" [] d = 1 -> "1" [] d = 2 -> "2" [] d = 3 -> "3" [] d = 4 -> "4"
      [] d = 5 -> "5" [] d = 6 -> "6" [] d = 7 -> "7" [] d = 8 -> "8" [] d = 9 -> "9"

RECURSIVE FormatInt(_)
FormatInt(n) == IF n < 10 THEN DigitChar(n) ELSE FormatInt(n \div 10) \o DigitChar(n % 10)

ChunkId(i) == "chunk_" \o FormatInt(i)

(***************************************************************************)
(* Enrichment                                                              *)
(***************************************************************************)
\* rag_core.py: {'chunk_id': f"chunk_{i}", **item}: the item's own keys come last.
EnrichItemCore(item, i) ==
    [k \in DOMAIN item \cup {"chunk_id"} |->
        IF k \in DOMAIN item THEN item[k] ELSE ChunkId(i)]

EnrichCore(raw) == [n \in 1..Len(raw) |-> EnrichItemCore(raw[n], n - 1)]

\* my_rag.py: item['chunk_id'] = f"chunk_{i}"
EnrichItemPipeline(item, i) ==
    [k \in DOMAIN item \cup {"chunk_id"} |->
        IF k = "chunk_id" THEN ChunkId(i) ELSE item[k]]

EnrichPipeline(raw) == [n \in 1..Len(raw) |-> EnrichItemPipeline(raw[n], n - 1)]

EnrichedExistsNever == FALSE

\* os.path.exists(enriched_json_path)
EnrichedExists == enrichedFile.exists

RawExistsAlways == TRUE

\* open(original_json_path) does not raise FileNotFoundError.
RawExists == rawFile.exists

(***************************************************************************)
(* Documents and the reference map                                         *)
(***************************************************************************)
\* item.get("type") == "text" and item.get("text", "").strip()
Qualifies(item) == Get(item, "type", "None") = "text" /\ Strip(Get(item, "text", <<>>)) # <<>>

RECURSIVE SelectQualifying(_)
SelectQualifying(data) ==
    IF data = <<>> THEN <<>>
    ELSE IF Qualifies(Head(data))
         THEN <<Head(data)>> \o SelectQualifying(Tail(data))
         ELSE SelectQualifying(Tail(data))

\* Document(text=item["text"], metadata={"page": ..., "chunk_id": item['chunk_id']})
Document(item) ==
    [text |-> item["text"], page |-> Get(item, "page_idx", -1), chunk_id |-> item["chunk_id"]]

DocumentsUnfiltered(data) == [n \in 1..Len(data) |-> Document(data[n])]

Documents(data) ==
    LET q == SelectQualifying(data) IN [n \in 1..Len(q) |-> Document(q[n])]

\* What the vector store keeps of a document.
VectorRecord(doc) == [page |-> doc.page, chunk_id |-> doc.chunk_id]

\* A record in the collection; the field by is history: the process whose
\* from_documents call added it.
InsertedBy(rec, p) == [page |-> rec.page, chunk_id |-> rec.chunk_id, by |-> p]

\* {item['chunk_id']: item for item in data_for_rag}: a later item replaces an earlier one.
ReferenceMapOf(data) ==
    LET keys == {data[n]["chunk_id"] : n \in 1..Len(data)}
        last(k) == CHOOSE n \in 1..Len(data) :
                      /\ data[n]["chunk_id"] = k
                      /\ \A m \in 1..Len(data) : data[m]["chunk_id"] = k => m <= n
    IN [k \in keys |-> data[last(k)]]

EmptyMap == ReferenceMapOf(<<>>)

GetReferenceMapNoLoad(file) == EmptyMap

\* rag_core.get_reference_map
GetReferenceMap(file) == IF ~file.exists THEN EmptyMap ELSE ReferenceMapOf(file.data)

StoredIds == {collection[n].chunk_id : n \in 1..Len(collection)}

(***************************************************************************)
(* Processes                                                               *)
(***************************************************************************)
Procs == {1, 2}

ProcInit ==
    [pc |-> "idle", entry |-> "none",
     llm |-> FALSE, embed |-> FALSE, coll |-> FALSE, net |-> FALSE,
     sawEmpty |-> FALSE, data |-> <<>>, docs |-> <<>>,
     store |-> "unset", refmap |-> EmptyMap]

AppTerminal == {"ready", "stopped", "crashed"}
CliTerminal == {"mr_ready", "mr_returned", "mr_crashed"}
Quiet == {"idle"} \cup AppTerminal \cup CliTerminal

AllQuiet == \A p \in Procs : proc[p].pc \in Quiet

IsEmptyAlways == TRUE

\* chroma_collection.count() == 0
IsEmpty == Len(collection) = 0

InitFiles ==
    /\ rawFile \in {File(d) : d \in RawFiles} \cup {NoFile}
    /\ enrichedFile = NoFile
    /\ collection = <<>>
    /\ proc = [p \in Procs |-> ProcInit]
    /\ cache = [p \in Procs |-> "none"]
    /\ io = {}
    /\ filled = FALSE
    /\ indexedFrom = NoFile

RagAtRest ==
    /\ environ = RequiredVars
    /\ rawFile = NoFile
    /\ enrichedFile = NoFile
    /\ collection = <<>>
    /\ proc = [p \in Procs |-> ProcInit]
    /\ cache = [p \in Procs |-> "none"]
    /\ io = {}
    /\ filled = FALSE
    /\ indexedFrom = NoFile

(***************************************************************************)
(* Starting and leaving an entry point                                     *)
(***************************************************************************)
SetProc(p, r) == proc' = [proc EXCEPT ![p] = r]

\* A process starts app.py (which calls initialize_rag_system) or my_rag.py.
Launch(p) ==
    /\ proc[p].pc = "idle"
    /\ \E e \in {"app", "cli"} :
          SetProc(p, [ProcInit EXCEPT !.entry = e,
                                      !.pc = IF e = "app" THEN "rc_llm" ELSE "mr_llm"])
    /\ io' = {"start"}
    /\ UNCHANGED <<environ, rawFile, enrichedFile, collection, cache, filled, indexedFrom>>
    /\ UNCHANGED otherThanRag

\* A rerun of the page: st.cache_resource answers initialize_rag_system from
\* its cache when the function has returned before in this process.
AppRerun(p) ==
    /\ proc[p].entry = "app"
    /\ proc[p].pc \in AppTerminal
    /\ SetProc(p, [ProcInit EXCEPT !.entry = "app",
                                   !.pc = IF cache[p] = "none" THEN "rc_llm" ELSE "rc_map",
                                   !.store = IF cache[p] = "none" THEN "unset" ELSE cache[p]])
    /\ io' = {"start"}
    /\ UNCHANGED <<environ, rawFile, enrichedFile, collection, cache, filled, indexedFrom>>
    /\ UNCHANGED otherThanRag

\* The process ends; its cache goes with it.
Exit(p) ==
    /\ proc[p].pc \in AppTerminal \cup CliTerminal
    /\ SetProc(p, ProcInit)
    /\ cache' = [cache EXCEPT ![p] = "none"]
    /\ io' = {"exit"}
    /\ UNCHANGED <<environ, rawFile, enrichedFile, collection, filled, indexedFrom>>
    /\ UNCHANGED otherThanRag

(***************************************************************************)
(* rag_core.initialize_rag_system                                          *)
(***************************************************************************)
\* Lines 35-38: no value is checked; the client constructor may reject a
\* missing value (the library's choice) or accept it.
RcLlm(p) ==
    /\ proc[p].pc = "rc_llm"
    /\ \/ SetProc(p, [proc[p] EXCEPT !.pc = "rc_embed", !.llm = TRUE])
       \/ /\ ~(LlmVars \subseteq environ)
          /\ SetProc(p, [proc[p] EXCEPT !.pc = "crashed"])
    /\ io' = {}
    /\ UNCHANGED <<environ, rawFile, enrichedFile, collection, cache, filled, indexedFrom>>
    /\ UNCHANGED otherThanRag

\* Lines 40-48.
RcEmbed(p) ==
    /\ proc[p].pc = "rc_embed"
    /\ \/ SetProc(p, [proc[p] EXCEPT !.pc = "rc_open", !.embed = TRUE])
       \/ /\ ~(EmbedVars \subseteq environ)
          /\ SetProc(p, [proc[p] EXCEPT !.pc = "crashed"])
    /\ io' = {}
    /\ UNCHANGED <<environ, rawFile, enrichedFile, collection, cache, filled, indexedFrom>>
    /\ UNCHANGED otherThanRag

\* Lines 51-57: open the collection and read its count. A non-empty
\* collection is returned as it is (lines 83-88).
RcOpen(p) ==
    /\ proc[p].pc = "rc_open"
    /\ IF IsEmpty
       THEN /\ SetProc(p, [proc[p] EXCEPT !.pc = "rc_enrich", !.coll = TRUE, !.sawEmpty = TRUE])
            /\ UNCHANGED cache
       ELSE /\ SetProc(p, [proc[p] EXCEPT !.pc = "rc_map", !.coll = TRUE, !.store = "store"])
            /\ cache' = [cache EXCEPT ![p] = "store"]
    /\ io' = {"count"}
    /\ UNCHANGED <<environ, rawFile, enrichedFile, collection, filled, indexedFrom>>
    /\ UNCHANGED otherThanRag

\* Lines 59-72.
RcEnrich(p) ==
    /\ proc[p].pc = "rc_enrich"
    /\ IF EnrichedExists
       THEN /\ SetProc(p, [proc[p] EXCEPT !.pc = "rc_load"])
            /\ io' = {"skip_enrich"}
            /\ UNCHANGED <<enrichedFile, cache>>
       ELSE IF ~RawExists
       THEN \* FileNotFoundError: st.error, return None
            /\ SetProc(p, [proc[p] EXCEPT !.pc = "rc_map", !.store = "None"])
            /\ cache' = [cache EXCEPT ![p] = "None"]
            /\ io' = {"open_raw", "report_not_found"}
            /\ UNCHANGED enrichedFile
       ELSE /\ enrichedFile' = File(EnrichCore(rawFile.data))
            /\ SetProc(p, [proc[p] EXCEPT !.pc = "rc_load"])
            /\ io' = {"open_raw", "read_raw", "write_enriched"}
            /\ UNCHANGED cache
    /\ UNCHANGED <<environ, rawFile, collection, filled, indexedFrom>>
    /\ UNCHANGED otherThanRag

\* Lines 74-77.
RcLoad(p) ==
    /\ proc[p].pc = "rc_load"
    /\ IF ~enrichedFile.exists
       THEN SetProc(p, [proc[p] EXCEPT !.pc = "crashed"])
       ELSE SetProc(p, [proc[p] EXCEPT !.pc = "rc_fill", !.data = enrichedFile.data,
                                       !.docs = Documents(enrichedFile.data)])
    /\ io' = {"read_enriched"}
    /\ UNCHANGED <<environ, rawFile, enrichedFile, collection, cache, filled, indexedFrom>>
    /\ UNCHANGED otherThanRag

\* VectorStoreIndex.from_documents: every document is embedded (a network
\* call) and stored as one record; a failed call raises with nothing stored.
\* No document: nothing is embedded or stored.
FromDocuments(p, next, crash) ==
    \/ /\ collection' = collection \o [n \in 1..Len(proc[p].docs) |->
                                        InsertedBy(VectorRecord(proc[p].docs[n]), p)]
       /\ filled' = TRUE
       /\ indexedFrom' = IF proc[p].docs = <<>> THEN indexedFrom ELSE File(proc[p].data)
       /\ SetProc(p, [proc[p] EXCEPT !.pc = next, !.store = "store",
                                     !.net = @ \/ proc[p].docs # <<>>,
                                     !.data = <<>>, !.docs = <<>>])
       /\ io' = {"fill"} \cup (IF proc[p].docs = <<>> THEN {} ELSE {"net", "insert"})
    \/ /\ proc[p].docs # <<>>
       /\ SetProc(p, [proc[p] EXCEPT !.pc = crash, !.net = TRUE, !.data = <<>>, !.docs = <<>>])
       /\ io' = {"net"}
       /\ UNCHANGED <<collection, filled, indexedFrom>>

\* Lines 80-88.
RcFill(p) ==
    /\ proc[p].pc = "rc_fill"
    /\ FromDocuments(p, "rc_map", "crashed")
    /\ cache' = [cache EXCEPT ![p] = IF proc'[p].pc = "rc_map" THEN "store" ELSE @]
    /\ UNCHANGED <<environ, rawFile, enrichedFile>>
    /\ UNCHANGED otherThanRag

\* app.py lines 132-136: reference_map = get_reference_map(); st.stop() on None.
AppMap(p) ==
    /\ proc[p].pc = "rc_map"
    /\ SetProc(p, [proc[p] EXCEPT !.refmap = GetReferenceMap(enrichedFile),
                                  !.pc = IF proc[p].store = "None" THEN "stopped" ELSE "ready"])
    /\ io' = {"load_map"}
    /\ UNCHANGED <<environ, rawFile, enrichedFile, collection, cache, filled, indexedFrom>>
    /\ UNCHANGED otherThanRag

(***************************************************************************)
(* my_rag.run_mineru_rag_pipeline                                          *)
(***************************************************************************)
\* Lines 40-47.
MrLlm(p) ==
    /\ proc[p].pc = "mr_llm"
    /\ IF LlmVars \subseteq environ
       THEN /\ SetProc(p, [proc[p] EXCEPT !.pc = "mr_embed", !.llm = TRUE])
            /\ io' = {}
       ELSE /\ SetProc(p, [proc[p] EXCEPT !.pc = "mr_returned", !.store = "config_error"])
            /\ io' = {"report_config"}
    /\ UNCHANGED <<environ, rawFile, enrichedFile, collection, cache, filled, indexedFrom>>
    /\ UNCHANGED otherThanRag

\* Lines 49-65.
MrEmbed(p) ==
    /\ proc[p].pc = "mr_embed"
    /\ IF EmbedVars \subseteq environ
       THEN /\ SetProc(p, [proc[p] EXCEPT !.pc = "mr_enrich", !.embed = TRUE])
            /\ io' = {}
       ELSE /\ SetProc(p, [proc[p] EXCEPT !.pc = "mr_returned", !.store = "config_error"])
            /\ io' = {"report_config"}
    /\ UNCHANGED <<environ, rawFile, enrichedFile, collection, cache, filled, indexedFrom>>
    /\ UNCHANGED otherThanRag

\* Lines 70-95.
MrEnrich(p) ==
    /\ proc[p].pc = "mr_enrich"
    /\ IF EnrichedExists
       THEN /\ SetProc(p, [proc[p] EXCEPT !.pc = "mr_load"])
            /\ io' = {"skip_enrich"}
            /\ UNCHANGED enrichedFile
       ELSE IF ~RawExists
       THEN /\ SetProc(p, [proc[p] EXCEPT !.pc = "mr_returned", !.store = "None"])
            /\ io' = {"open_raw", "report_not_found"}
            /\ UNCHANGED enrichedFile
       ELSE /\ enrichedFile' = File(EnrichPipeline(rawFile.data))
            /\ SetProc(p, [proc[p] EXCEPT !.pc = "mr_load"])
            /\ io' = {"open_raw", "read_raw", "write_enriched"}
    /\ UNCHANGED <<environ, rawFile, collection, cache, filled, indexedFrom>>
    /\ UNCHANGED otherThanRag

\* Lines 100-128.
MrLoad(p) ==
    /\ proc[p].pc = "mr_load"
    /\ IF ~enrichedFile.exists
       THEN SetProc(p, [proc[p] EXCEPT !.pc = "mr_returned", !.store = "None"])
       ELSE IF Documents(enrichedFile.data) = <<>>
       THEN SetProc(p, [proc[p] EXCEPT !.pc = "mr_returned", !.store = "None",
                                       !.refmap = ReferenceMapOf(enrichedFile.data)])
       ELSE SetProc(p, [proc[p] EXCEPT !.pc = "mr_open", !.data = enrichedFile.data,
                                       !.refmap = ReferenceMapOf(enrichedFile.data),
                                       !.docs = Documents(enrichedFile.data)])
    /\ io' = {"read_enriched", "load_map"}
    /\ UNCHANGED <<environ, rawFile, enrichedFile, collection, cache, filled, indexedFrom>>
    /\ UNCHANGED otherThanRag

\* Lines 135-141.
MrOpen(p) ==
    /\ proc[p].pc = "mr_open"
    /\ SetProc(p, [proc[p] EXCEPT !.pc = "mr_fill", !.coll = TRUE, !.sawEmpty = IsEmpty])
    /\ io' = {"count"}
    /\ UNCHANGED <<environ, rawFile, enrichedFile, collection, cache, filled, indexedFrom>>
    /\ UNCHANGED otherThanRag

\* Lines 141-158.
MrFill(p) ==
    /\ proc[p].pc = "mr_fill"
    /\ IF proc[p].sawEmpty
       THEN FromDocuments(p, "mr_ready", "mr_crashed")
       ELSE \* VectorStoreIndex.from_vector_store
            /\ SetProc(p, [proc[p] EXCEPT !.pc = "mr_ready", !.store = "store",
                                          !.data = <<>>, !.docs = <<>>])
            /\ io' = {"load_index"}
            /\ UNCHANGED <<collection, filled, indexedFrom>>
    /\ UNCHANGED <<environ, rawFile, enrichedFile, cache>>
    /\ UNCHANGED otherThanRag

(***************************************************************************)
(* The files change under the program while no entry point is running      *)
(***************************************************************************)
\* The parser writes a new (empty) extraction file, or one more record to it.
RawWrite ==
    /\ AllQuiet
    /\ \/ /\ ~rawFile.exists
          /\ rawFile' = File(<<>>)
       \/ /\ rawFile.exists
          /\ Len(rawFile.data) < MaxItems
          /\ \E item \in RawItems : rawFile' = File(Append(rawFile.data, item))
    /\ io' = {"env"}
    /\ UNCHANGED <<environ, enrichedFile, collection, proc, cache, filled, indexedFrom>>
    /\ UNCHANGED otherThanRag

\* The last record of the extraction file is dropped.
RawTruncate ==
    /\ AllQuiet
    /\ rawFile.exists
    /\ rawFile.data # <<>>
    /\ rawFile' = File(SubSeq(rawFile.data, 1, Len(rawFile.data) - 1))
    /\ io' = {"env"}
    /\ UNCHANGED <<environ, enrichedFile, collection, proc, cache, filled, indexedFrom>>
    /\ UNCHANGED otherThanRag

RawRemove ==
    /\ AllQuiet
    /\ rawFile.exists
    /\ rawFile' = NoFile
    /\ io' = {"env"}
    /\ UNCHANGED <<environ, enrichedFile, collection, proc, cache, filled, indexedFrom>>
    /\ UNCHANGED otherThanRag

EnrichedRemove ==
    /\ AllQuiet
    /\ enrichedFile.exists
    /\ enrichedFile' = NoFile
    /\ io' = {"env"}
    /\ UNCHANGED <<environ, rawFile, collection, proc, cache, filled, indexedFrom>>
    /\ UNCHANGED otherThanRag

ProcStep(p) ==
    \/ Launch(p) \/ AppRerun(p) \/ Exit(p)
    \/ RcLlm(p) \/ RcEmbed(p) \/ RcOpen(p) \/ RcEnrich(p) \/ RcLoad(p) \/ RcFill(p) \/ AppMap(p)
    \/ MrLlm(p) \/ MrEmbed(p) \/ MrEnrich(p) \/ MrLoad(p) \/ MrOpen(p) \/ MrFill(p)

EnvStep == RawWrite \/ RawTruncate \/ RawRemove \/ EnrichedRemove

\* One initializing process.
Next == ProcStep(1) \/ EnvStep


(***************************************************************************)
(* The chat page: one script run per interaction (app.py lines 159-228)    *)
(***************************************************************************)
Prompts == {"p", "q"}

NoLocal == [prompt |-> "", llama_debug |-> 0]

Greeting == [role |-> "assistant", content |-> "greeting"]

Last(seq) == seq[Len(seq)]

\* The event pairs a query emits, in the order of their start: the root
\* query with retrieval (and the embedding of the question) under it, then
\* synthesis with the model call under it.
RetrievalKinds == <<"query", "retrieve", "embedding">>
SynthesisKinds == <<"synthesize", "llm">>

EventPairs(kinds, e) == [n \in 1..Len(kinds) |-> [kind |-> kinds[n], exec |-> e]]

\* CallbackManager.on_event_start/on_event_end: every handler of the active
\* manager records the event.
Emit(kinds) ==
    handlers' = [h \in DOMAIN handlers |->
                    IF \E n \in DOMAIN slot : slot[n] = h
                    THEN handlers[h] \o EventPairs(kinds, execNo)
                    ELSE handlers[h]]

\* LlamaDebugHandler.get_event_pairs: a new list of what the handler holds.
GetEventPairs(h) == handlers[h]

\* Line 172-177: a prompt is appended and the script reruns.
SubmitPrompt ==
    /\ appPc = "idle"
    /\ Len(messages) + 2 <= MaxMessages
    /\ execNo < MaxExecs
    /\ \E pr \in Prompts : messages' = Append(messages, [role |-> "user", content |-> pr])
    /\ appPc' = "check"
    /\ UNCHANGED <<slot, handlers, appLocal, execNo>>
    /\ UNCHANGED otherThanApp

\* Any other interaction reruns the script.
Rerun ==
    /\ appPc = "idle"
    /\ execNo < MaxExecs
    /\ appPc' = "check"
    /\ UNCHANGED <<messages, slot, handlers, appLocal, execNo>>
    /\ UNCHANGED otherThanApp

CheckLastAlways ==
    /\ appPc = "check"
    /\ appPc' = "bind"
    /\ appLocal' = [appLocal EXCEPT !.prompt = Last(messages).content]
    /\ UNCHANGED <<messages, slot, handlers, execNo>>
    /\ UNCHANGED otherThanApp

\* Line 181-183.
CheckLast ==
    /\ appPc = "check"
    /\ IF /\ messages # <<>>
          /\ Last(messages).role = "user"
          /\ "trace_events" \notin DOMAIN Last(messages)
       THEN /\ appPc' = "bind"
            /\ appLocal' = [appLocal EXCEPT !.prompt = Last(messages).content]
       ELSE /\ appPc' = "idle"
            /\ appLocal' = NoLocal
    /\ UNCHANGED <<messages, slot, handlers, execNo>>
    /\ UNCHANGED otherThanApp

BindSharedTracer ==
    /\ handlers' = IF handlers = <<>> THEN <<<<>>>> ELSE handlers
    /\ slot' = <<1>>
    /\ appLocal' = [appLocal EXCEPT !.llama_debug = 1]

\* Lines 191-195: a new handler, alone in a new manager, set on Settings.
BindFreshTracer ==
    /\ handlers' = Append(handlers, <<>>)
    /\ slot' = <<Len(handlers) + 1>>
    /\ appLocal' = [appLocal EXCEPT !.llama_debug = Len(handlers) + 1]

Bind ==
    /\ appPc = "bind"
    /\ BindFreshTracer
    /\ execNo' = execNo + 1
    /\ appPc' = "retrieve"
    /\ UNCHANGED messages
    /\ UNCHANGED otherThanApp

RaiseStoringPartial ==
    /\ appPc' = "idle"
    /\ appLocal' = NoLocal
    /\ messages' = Append(messages, [role |-> "assistant", content |-> <<"partial">>,
                                     trace_events |-> GetEventPairs(appLocal.llama_debug),
                                     exec |-> execNo])
    /\ UNCHANGED <<slot, execNo>>

\* The script run ends with the exception; nothing after the raising line runs.
Raise ==
    /\ appPc' = "idle"
    /\ appLocal' = NoLocal
    /\ UNCHANGED <<messages, slot, execNo>>

\* Lines 198-205, retrieval: the question is embedded and the collection searched.
Retrieve ==
    /\ appPc = "retrieve"
    /\ Emit(RetrievalKinds)
    /\ \/ /\ appPc' = "synth"
          /\ UNCHANGED <<messages, slot, appLocal, execNo>>
       \/ Raise
    /\ UNCHANGED otherThanApp

\* Line 205, synthesis: the prompt is sent to the language model.
Synthesize ==
    /\ appPc = "synth"
    /\ Emit(SynthesisKinds)
    /\ \/ /\ appPc' = "store"
          /\ UNCHANGED <<messages, slot, appLocal, execNo>>
       \/ Raise
    /\ UNCHANGED otherThanApp

\* Lines 215-222. The field exec is history: the execution that answered.
Store ==
    /\ appPc = "store"
    /\ messages' = Append(messages,
                     [role |-> "assistant",
                      content |-> <<"answer", appLocal.prompt>>,
                      trace_events |-> GetEventPairs(appLocal.llama_debug),
                      exec |-> execNo])
    /\ appPc' = "reset"
    /\ UNCHANGED <<slot, handlers, appLocal, execNo>>
    /\ UNCHANGED otherThanApp

\* Lines 225-228: the slot is reset and the script reruns.
Reset ==
    /\ appPc = "reset"
    /\ slot' = <<>>
    /\ appPc' = "check"
    /\ appLocal' = NoLocal
    /\ UNCHANGED <<messages, handlers, execNo>>
    /\ UNCHANGED otherThanApp

(***************************************************************************)
(* render_trace_expander (app.py lines 16-100)                             *)
(***************************************************************************)
\* A timestamp as strptime reads it with "%m/%d/%Y, %H:%M:%S.%f".
Stamp(mo, d, y, h, mi, sec, us) ==
    [mo |-> mo, d |-> d, y |-> y, h |-> h, mi |-> mi, s |-> sec, us |-> us]

NewYear      == Stamp(1, 1, 2024, 0, 0, 0, 0)           \* "01/01/2024, 00:00:00.000000"
NewYearLater == Stamp(1, 1, 2024, 0, 0, 1, 500000)      \* "01/01/2024, 00:00:01.500000"
OldYearEnd   == Stamp(12, 31, 2023, 23, 59, 59, 250000) \* "12/31/2023, 23:59:59.250000"
LeapDay      == Stamp(2, 29, 2024, 12, 0, 0, 123456)    \* "02/29/2024, 12:00:00.123456"
MarchFirst   == Stamp(3, 1, 2024, 12, 0, 0, 123506)     \* "03/01/2024, 12:00:00.123506"

\* The (start, end) timestamps an event pair is drawn with.
Intervals ==
    { <<NewYear, NewYearLater>>, <<NewYear, NewYear>>, <<OldYearEnd, NewYear>>,
      <<NewYearLater, NewYear>>, <<LeapDay, MarchFirst>> }

\* datetime: days since 1970-01-01 of a proleptic Gregorian date.
DaysFromCivil(y, m, d) ==
    LET yy  == IF m <= 2 THEN y - 1 ELSE y
        era == yy \div 400
        yoe == yy - era * 400
        mp  == IF m > 2 THEN m - 3 ELSE m + 9
        doy == (153 * mp + 2) \div 5 + d - 1
        doe == yoe * 365 + yoe \div 4 - yoe \div 100 + doy
    IN era * 146097 + doe - 719468

\* datetime.strptime(...): the instant, as seconds since 1970 and microseconds.
Strptime(t) ==
    [sec |-> ((DaysFromCivil(t.y, t.mo, t.d) * 24 + t.h) * 60 + t.mi) * 60 + t.s,
     us |-> t.us]

\* end_time - start_time: a timedelta, its microseconds in 0..999999.
TimeDelta(a, b) ==
    IF a.us >= b.us
    THEN [sec |-> a.sec - b.sec, us |-> a.us - b.us]
    ELSE [sec |-> a.sec - b.sec - 1, us |-> a.us - b.us + 1000000]

Kinds == {"query", "embedding", "retrieve", "synthesize", "llm", "templating"}

\* What the renderer reads of a pair's payloads: the number of retrieved
\* nodes (and whether they carry a page), whether the model call has a
\* prompt and a response.
Payloads(kind) ==
    CASE kind = "retrieve" -> {[nodes |-> 0, page |-> FALSE], [nodes |-> 2, page |-> TRUE]}
      [] kind = "llm" -> {[prompt |-> TRUE, response |-> TRUE], [prompt |-> FALSE, response |-> FALSE]}
      [] OTHER -> {[none |-> TRUE]}

\* An event pair <<start, end>> of one kind, as get_event_pairs returns it.
Pairs ==
    UNION { { [kind |-> k, start |-> i[1], end |-> i[2], payload |-> pl] :
                pl \in Payloads(k) } : <<k, i>> \in Kinds \X Intervals }

\* None, or the float total_seconds() returns: sec + us / 10^6.
None == [ok |-> FALSE, sec |-> 0, us |-> 0]

Some(td) == [ok |-> TRUE, sec |-> td.sec, us |-> td.us]

NoDurations == [k \in Kinds |-> None]

OfKind(pairs, etype) == SelectSeq(pairs, LAMBDA pr : pr.kind = etype)

LastPair(pairs, etype) ==
    LET of == OfKind(pairs, etype) IN IF of = <<>> THEN <<>> ELSE <<of[Len(of)]>>

\* next((p for p in event_pairs if p[0].event_type == etype), None)
FirstPair(pairs, etype) ==
    LET of == OfKind(pairs, etype) IN IF of = <<>> THEN <<>> ELSE <<of[1]>>

\* get_duration: (end_time - start_time).total_seconds(), or None.
GetDuration(pairs, etype) ==
    LET first == FirstPair(pairs, etype)
    IN IF first = <<>> THEN None
       ELSE Some(TimeDelta(Strptime(first[1].end), Strptime(first[1].start)))

\* f"{duration:.4f}": the value in units of 0.0001 s, rounded to the nearest
\* (ties to even).
Round4(duration) ==
    LET n == duration.sec * 10000 + duration.us \div 100
        r == duration.us % 100
    IN IF r > 50 \/ (r = 50 /\ n % 2 = 1) THEN n + 1 ELSE n

\* get_duration_str
GetDurationStr(pairs, etype) ==
    LET duration == GetDuration(pairs, etype)
    IN IF duration.ok THEN <<" - ", Round4(duration)>> ELSE <<>>

Widget(section, w, arg) == [section |-> section, w |-> w, arg |-> arg]

\* Lines 40-42.
TotalSection(pairs) ==
    LET query_duration == GetDuration(pairs, "query")
    IN IF query_duration.ok
       THEN <<Widget("total", "info", <<Round4(query_duration)>>)>>
       ELSE <<>>

EmbeddingSectionAlways(pairs) ==
    <<Widget("embedding", "hr", <<>>),
      Widget("embedding", "subheader", GetDurationStr(pairs, "embedding"))>>

\* Lines 45-53.
EmbeddingSection(pairs) ==
    IF OfKind(pairs, "embedding") # <<>>
    THEN <<Widget("embedding", "hr", <<>>),
           Widget("embedding", "subheader", GetDurationStr(pairs, "embedding")),
           Widget("embedding", "markdown", <<>>),
           Widget("embedding", "text_area", <<"in">>),
           Widget("embedding", "text_area", <<"out">>)>>
    ELSE <<>>

\* Lines 64-76: one container per retrieved node.
NodeWidgets(node_idx, page, pdf) ==
    <<Widget("retrieval", "markdown", <<node_idx>>)>>
    \o (IF page /\ pdf THEN <<Widget("retrieval", "button", <<node_idx>>)>> ELSE <<>>)
    \o <<Widget("retrieval", "text_area", <<node_idx>>)>>

RECURSIVE NodesWidgets(_, _, _, _)
NodesWidgets(node_idx, n, page, pdf) ==
    IF node_idx >= n THEN <<>>
    ELSE NodeWidgets(node_idx, page, pdf) \o NodesWidgets(node_idx + 1, n, page, pdf)

\* Lines 56-76.
RetrievalSection(pairs, pdf) ==
    LET retrieval_events == OfKind(pairs, "retrieve")
    IN IF retrieval_events # <<>>
       THEN LET pl == retrieval_events[1].payload
            IN <<Widget("retrieval", "hr", <<>>),
                 Widget("retrieval", "subheader", GetDurationStr(pairs, "retrieve")),
                 Widget("retrieval", "markdown", <<>>)>>
               \o (IF pl.nodes > 0
                   THEN <<Widget("retrieval", "success", <<pl.nodes>>)>>
                        \o NodesWidgets(0, pl.nodes, pl.page, pdf)
                   ELSE <<>>)
       ELSE <<>>

\* Lines 79-100.
SynthesisSection(pairs) ==
    LET synthesize_events == OfKind(pairs, "synthesize")
        llm_duration == GetDuration(pairs, "llm")
        llm_events == OfKind(pairs, "llm")
    IN IF synthesize_events # <<>>
       THEN <<Widget("synthesis", "hr", <<>>),
              Widget("synthesis", "subheader", GetDurationStr(pairs, "synthesize")),
              Widget("synthesis", "markdown", <<>>)>>
            \o (IF llm_duration.ok
                THEN <<Widget("synthesis", "caption", <<Round4(llm_duration)>>)>>
                ELSE <<>>)
            \o (IF llm_events # <<>> /\ llm_events[1].payload.prompt
                THEN <<Widget("synthesis", "text_area", <<"prompt">>)>>
                ELSE <<>>)
            \o (IF llm_events # <<>> /\ llm_events[1].payload.response
                THEN <<Widget("synthesis", "text_area", <<"response">>)>>
                ELSE <<>>)
       ELSE <<>>

\* Lines 19-100.
RenderTraceExpander(pairs, pdf) ==
    IF pairs = <<>>
    THEN <<Widget("notice", "warning", <<>>)>>
    ELSE TotalSection(pairs) \o EmbeddingSection(pairs)
         \o RetrievalSection(pairs, pdf) \o SynthesisSection(pairs)

\* The library captures one more event pair.
Capture ==
    /\ renderPc = "build"
    /\ Len(timeline) < MaxPairs
    /\ \E pr \in Pairs : timeline' = Append(timeline, pr)
    /\ UNCHANGED <<pdfBytes, renderPc, durations, rendered>>
    /\ UNCHANGED otherThanRender

\* Line 170: the timeline of a message is rendered.
Render ==
    /\ renderPc = "build"
    /\ renderPc' = "rendered"
    /\ durations' = IF timeline = <<>> THEN NoDurations
                    ELSE [k \in Kinds |-> GetDuration(timeline, k)]
    /\ rendered' = RenderTraceExpander(timeline, pdfBytes)
    /\ UNCHANGED <<timeline, pdfBytes>>
    /\ UNCHANGED otherThanRender

(***************************************************************************)
(* main and parse_doc (mineru/cli/client.py lines 162-245)                 *)
(***************************************************************************)
\* What can go wrong with a document: read_fn raises, pdfium.PdfDocument
\* raises, do_parse raises on it.
Faults == {"ok", "bad_read", "bad_pages", "bad_parse"}

\* A document of the input: its suffix, its fault, its number of pages.
Docs == [suffix : {".pdf", ".txt"}, fault : Faults, pages : {1, 2}]

\* pdf_suffixes + image_suffixes, as far as the documents above go.
ParseSuffixes == {".pdf"}

RECURSIVE Indices(_, _)
\* The documents i..Len(docs) with a suffix the parser takes, in order.
Indices(docs, i) ==
    IF i > Len(docs) THEN <<>>
    ELSE (IF docs[i].suffix \in ParseSuffixes THEN <<i>> ELSE <<>>)
         \o Indices(docs, i + 1)

Inputs ==
    { [isdir |-> TRUE, docs |-> d] :
        d \in UNION { [1..n -> Docs] : n \in 0..MaxDocs } }
    \cup { [isdir |-> FALSE, docs |-> <<d>>] : d \in Docs }

\* The document the loop of parse_doc is at.
Current == pathList[Len(fileNames) + 1]

\* Lines 238-245: a directory is globbed and filtered by suffix, a file is
\* taken as it is.
Dispatch ==
    /\ cliPc = "main"
    /\ pathList' = IF inputPath.isdir THEN Indices(inputPath.docs, 1) ELSE <<1>>
    /\ cliPc' = "loop"
    /\ UNCHANGED <<inputPath, fileNames, totalPages, attempted, logged, shown, parsed>>
    /\ UNCHANGED otherThanCli

\* Lines 204-208 and 235-236: read_fn(path); what it raises ends parse_doc
\* in the except clause.
ReadFn ==
    /\ cliPc = "loop"
    /\ Len(fileNames) < Len(pathList)
    /\ attempted' = attempted \cup {Current}
    /\ IF inputPath.docs[Current].fault = "bad_read"
       THEN /\ logged' = logged \cup {Current}
            /\ cliPc' = "done"
            /\ UNCHANGED fileNames
       ELSE /\ fileNames' = Append(fileNames, Current)
            /\ cliPc' = "pages"
            /\ UNCHANGED logged
    /\ UNCHANGED <<inputPath, pathList, totalPages, shown, parsed>>
    /\ UNCHANGED otherThanCli

\* Lines 212-215 and 235-236: the pages of the document just read are counted.
CountPages ==
    /\ cliPc = "pages"
    /\ LET doc == fileNames[Len(fileNames)]
       IN IF inputPath.docs[doc].fault = "bad_pages"
          THEN /\ logged' = logged \cup {doc}
               /\ cliPc' = "done"
               /\ UNCHANGED totalPages
          ELSE /\ totalPages' = totalPages + inputPath.docs[doc].pages
               /\ cliPc' = "loop"
               /\ UNCHANGED logged
    /\ UNCHANGED <<inputPath, pathList, fileNames, attempted, shown, parsed>>
    /\ UNCHANGED otherThanCli

\* Line 218: the loop is over, the batch is announced.
Show ==
    /\ cliPc = "loop"
    /\ Len(fileNames) = Len(pathList)
    /\ shown' = TRUE
    /\ cliPc' = "parse"
    /\ UNCHANGED <<inputPath, pathList, fileNames, totalPages, attempted, logged, parsed>>
    /\ UNCHANGED otherThanCli

\* The documents of the call do_parse fails on.
Failing == { n \in DOMAIN fileNames : inputPath.docs[fileNames[n]].fault = "bad_parse" }

\* Lines 220-236: one call of do_parse with every document read; it returns,
\* or raises on a document and the except clause logs it.
DoParse ==
    /\ cliPc = "parse"
    /\ parsed' = fileNames
    /\ logged' = IF Failing = {} THEN logged
                 ELSE logged \cup {fileNames[CHOOSE n \in Failing : \A m \in Failing : n <= m]}
    /\ cliPc' = "done"
    /\ UNCHANGED <<inputPath, pathList, fileNames, totalPages, attempted, shown>>
    /\ UNCHANGED otherThanCli

(***************************************************************************)
(* ProgressDisplayer (mineru/utils/user_display.py)                        *)
(*                                                                         *)
(* One thread calls show() and success(); the refresh thread runs          *)
(* _update_display. A step is one statement, so that the two threads       *)
(* interleave between statements. Messages are numbered by their call.     *)
(* time.time() is not modelled: whether half a second has passed since     *)
(* last_update_time is either way at every check.                          *)
(***************************************************************************)
NoArgs == [message |-> 0, is_major_step |-> FALSE]

\* A line on the terminal: who printed it, the message and the marker.
Line(by, message, major) == [by |-> by, message |-> message, is_major_step |-> major]

\* Lines 32-37: show(message, is_major_step) is called.
CallShow ==
    /\ callerPc = "idle"
    /\ Len(calls) < MaxCalls
    /\ \E major \in BOOLEAN :
          LET args == [message |-> Len(calls) + 1, is_major_step |-> major]
          IN /\ calls' = Append(calls, [fn |-> "show"] @@ args)
             /\ IF enabled
                THEN callerPc' = "show_acquire" /\ callerArgs' = args
                ELSE callerPc' = "idle" /\ callerArgs' = NoArgs
    /\ wrote' = "none"
    /\ UNCHANGED <<enabled, currentMessage, isMajorStep, updateThread, stopUpdate, lock,
                   threadPc, threadFlag, created, joined, printed>>
    /\ UNCHANGED otherThanDisplay

\* Line 39: with self.lock.
ShowAcquire ==
    /\ callerPc = "show_acquire"
    /\ lock = "free"
    /\ lock' = "caller"
    /\ callerPc' = "show_message"
    /\ wrote' = "none"
    /\ UNCHANGED <<enabled, currentMessage, isMajorStep, updateThread, stopUpdate,
                   callerArgs, threadPc, threadFlag, calls, created, joined, printed>>
    /\ UNCHANGED otherThanDisplay

\* Line 40.
ShowMessage ==
    /\ callerPc = "show_message"
    /\ currentMessage' = callerArgs.message
    /\ callerPc' = "show_major"
    /\ wrote' = "none"
    /\ UNCHANGED <<enabled, isMajorStep, updateThread, stopUpdate, lock,
                   callerArgs, threadPc, threadFlag, calls, created, joined, printed>>
    /\ UNCHANGED otherThanDisplay

\* Lines 41-42.
ShowMajor ==
    /\ callerPc = "show_major"
    /\ isMajorStep' = callerArgs.is_major_step
    /\ callerPc' = "show_thread"
    /\ wrote' = "none"
    /\ UNCHANGED <<enabled, currentMessage, updateThread, stopUpdate, lock,
                   callerArgs, threadPc, threadFlag, calls, created, joined, printed>>
    /\ UNCHANGED otherThanDisplay

ShowThreadAlwaysStarts ==
    /\ callerPc = "show_thread"
    /\ stopUpdate' = FALSE
    /\ updateThread' = "thread"
    /\ threadPc' = "loop"
    /\ created' = created + 1
    /\ wrote' = "none"
    /\ lock' = "free"
    /\ callerPc' = "idle"
    /\ callerArgs' = NoArgs
    /\ UNCHANGED <<enabled, currentMessage, isMajorStep, threadFlag, calls, joined, printed>>
    /\ UNCHANGED otherThanDisplay

\* Lines 45-51, and the end of the with block: the first call starts the
\* refresh thread, a later call prints the status itself.
ShowThread ==
    /\ callerPc = "show_thread"
    /\ IF updateThread = "None"
       THEN /\ stopUpdate' = FALSE
            /\ updateThread' = "thread"
            /\ threadPc' = "loop"
            /\ created' = created + 1
            /\ wrote' = "none"
            /\ UNCHANGED printed
       ELSE /\ printed' = printed \cup {Line("show", currentMessage, isMajorStep)}
            /\ wrote' = "show"
            /\ UNCHANGED <<stopUpdate, updateThread, threadPc, created>>
    /\ lock' = "free"
    /\ callerPc' = "idle"
    /\ callerArgs' = NoArgs
    /\ UNCHANGED <<enabled, currentMessage, isMajorStep, threadFlag, calls, joined>>
    /\ UNCHANGED otherThanDisplay

\* Lines 93-98: success(message) is called.
CallSuccess ==
    /\ callerPc = "idle"
    /\ Len(calls) < MaxCalls
    /\ LET args == [message |-> Len(calls) + 1, is_major_step |-> FALSE]
       IN /\ calls' = Append(calls, [fn |-> "success"] @@ args)
          /\ IF enabled
             THEN callerPc' = "success_stop" /\ callerArgs' = args
             ELSE callerPc' = "idle" /\ callerArgs' = NoArgs
    /\ wrote' = "none"
    /\ UNCHANGED <<enabled, currentMessage, isMajorStep, updateThread, stopUpdate, lock,
                   threadPc, threadFlag, created, joined, printed>>
    /\ UNCHANGED otherThanDisplay

\* Lines 101-102: the flag is set with the lock held, and the lock released.
SuccessStop ==
    /\ callerPc = "success_stop"
    /\ lock = "free"
    /\ stopUpdate' = TRUE
    /\ callerPc' = "success_join"
    /\ wrote' = "none"
    /\ UNCHANGED <<enabled, currentMessage, isMajorStep, updateThread, lock,
                   callerArgs, threadPc, threadFlag, calls, created, joined, printed>>
    /\ UNCHANGED otherThanDisplay

\* Line 104: is there a thread, and is it alive.
SuccessJoin ==
    /\ callerPc = "success_join"
    /\ IF updateThread = "thread" /\ threadPc # "done"
       THEN callerPc' = "success_wait" /\ UNCHANGED joined
       ELSE callerPc' = "success_print" /\ joined' = "skipped"
    /\ wrote' = "none"
    /\ UNCHANGED <<enabled, currentMessage, isMajorStep, updateThread, stopUpdate, lock,
                   callerArgs, threadPc, threadFlag, calls, created, printed>>
    /\ UNCHANGED otherThanDisplay

\* Line 105: join(timeout=1) returns when the thread has ended, or after a
\* second.
SuccessWait ==
    /\ callerPc = "success_wait"
    /\ \/ threadPc = "done" /\ joined' = "finished"
       \/ threadPc # "done" /\ joined' = "timeout"
    /\ callerPc' = "success_print"
    /\ wrote' = "none"
    /\ UNCHANGED <<enabled, currentMessage, isMajorStep, updateThread, stopUpdate, lock,
                   callerArgs, threadPc, threadFlag, calls, created, printed>>
    /\ UNCHANGED otherThanDisplay

\* Lines 108-114: the final line.
SuccessPrint ==
    /\ callerPc = "success_print"
    /\ printed' = printed \cup {Line("success", callerArgs.message, FALSE)}
    /\ wrote' = "success"
    /\ callerPc' = "idle"
    /\ callerArgs' = NoArgs
    /\ UNCHANGED <<enabled, currentMessage, isMajorStep, updateThread, stopUpdate, lock,
                   threadPc, threadFlag, calls, created, joined>>
    /\ UNCHANGED otherThanDisplay

ThreadLoopIgnoringStop ==
    /\ threadPc = "loop"
    /\ threadPc' = "time"
    /\ wrote' = "none"
    /\ UNCHANGED <<enabled, currentMessage, isMajorStep, updateThread, stopUpdate, lock,
                   callerPc, callerArgs, threadFlag, calls, created, joined, printed>>
    /\ UNCHANGED otherThanDisplay

\* Line 81: while not self.stop_update.
ThreadLoop ==
    /\ threadPc = "loop"
    /\ threadPc' = IF stopUpdate THEN "done" ELSE "time"
    /\ wrote' = "none"
    /\ UNCHANGED <<enabled, currentMessage, isMajorStep, updateThread, stopUpdate, lock,
                   callerPc, callerArgs, threadFlag, calls, created, joined, printed>>
    /\ UNCHANGED otherThanDisplay

\* Lines 84-85: has half a second passed since the last update.
ThreadTime ==
    /\ threadPc = "time"
    /\ threadPc' \in {"flag", "sleep"}
    /\ wrote' = "none"
    /\ UNCHANGED <<enabled, currentMessage, isMajorStep, updateThread, stopUpdate, lock,
                   callerPc, callerArgs, threadFlag, calls, created, joined, printed>>
    /\ UNCHANGED otherThanDisplay

\* Lines 86, 57-68: _print_current_status reads self.is_major_step.
ThreadReadFlag ==
    /\ threadPc = "flag"
    /\ threadFlag' = isMajorStep
    /\ threadPc' = "message"
    /\ wrote' = "none"
    /\ UNCHANGED <<enabled, currentMessage, isMajorStep, updateThread, stopUpdate, lock,
                   callerPc, callerArgs, calls, created, joined, printed>>
    /\ UNCHANGED otherThanDisplay

\* Lines 69-75: self.current_message is read and the line printed; what
\* print raises ends the loop (lines 89-91).
ThreadPrint ==
    /\ threadPc = "message"
    /\ \/ /\ printed' = printed \cup {Line("thread", currentMessage, threadFlag)}
          /\ wrote' = "thread"
          /\ threadPc' = "sleep"
       \/ /\ threadPc' = "done"
          /\ wrote' = "none"
          /\ UNCHANGED printed
    /\ threadFlag' = FALSE
    /\ UNCHANGED <<enabled, currentMessage, isMajorStep, updateThread, stopUpdate, lock,
                   callerPc, callerArgs, calls, created, joined>>
    /\ UNCHANGED otherThanDisplay

\* Lines 87-88.
ThreadSleep ==
    /\ threadPc = "sleep"
    /\ threadPc' = "loop"
    /\ wrote' = "none"
    /\ UNCHANGED <<enabled, currentMessage, isMajorStep, updateThread, stopUpdate, lock,
                   callerPc, callerArgs, threadFlag, calls, created, joined, printed>>
    /\ UNCHANGED otherThanDisplay

CallerStep ==
    \/ ShowAcquire \/ ShowMessage \/ ShowMajor \/ ShowThread
    \/ SuccessStop \/ SuccessJoin \/ SuccessWait \/ SuccessPrint

ThreadStep == ThreadLoop \/ ThreadTime \/ ThreadReadFlag \/ ThreadPrint \/ ThreadSleep

\* Lines 8-21: __init__, as far as enabled goes.
Constructed ==
    /\ currentMessage = 0
    /\ isMajorStep = FALSE
    /\ updateThread = "None"
    /\ stopUpdate = FALSE
    /\ lock = "free"
    /\ callerPc = "idle"
    /\ callerArgs = NoArgs
    /\ threadPc = "none"
    /\ threadFlag = FALSE
    /\ calls = <<>>
    /\ created = 0
    /\ joined = "none"
    /\ printed = {}
    /\ wrote = "none"

DisplayAtRest == enabled = FALSE /\ Constructed

CliAtRest ==
    /\ inputPath = [isdir |-> TRUE, docs |-> <<>>]
    /\ cliPc = "off"
    /\ pathList = <<>>
    /\ fileNames = <<>>
    /\ totalPages = 0
    /\ attempted = {}
    /\ logged = {}
    /\ shown = FALSE
    /\ parsed = <<>>

AppAtRest ==
    /\ messages = <<>>
    /\ slot = <<>>
    /\ handlers = <<>>
    /\ appPc = "idle"
    /\ appLocal = NoLocal
    /\ execNo = 0

RenderAtRest ==
    /\ timeline = <<>>
    /\ pdfBytes = FALSE
    /\ renderPc = "build"
    /\ durations = NoDurations
    /\ rendered = <<>>

\* Line 161-162: the first run of a session.
InitApp ==
    /\ RagAtRest
    /\ messages = <<Greeting>>
    /\ slot = <<>>
    /\ handlers = <<>>
    /\ appPc = "idle"
    /\ appLocal = NoLocal
    /\ execNo = 0
    /\ RenderAtRest
    /\ CliAtRest
    /\ DisplayAtRest

NextApp ==
    \/ SubmitPrompt \/ Rerun \/ CheckLast \/ Bind
    \/ Retrieve \/ Synthesize \/ Store \/ Reset

SpecApp == InitApp /\ [][NextApp]_vars

\* C4: the tracer slot is empty whenever no query is executing, also after
\* a query whose retrieval or synthesis raised.
C4_SlotEmptyOutsideQuery ==
    appPc \in {"idle", "check", "bind"} => slot = <<>>

\* C5: the timeline attached to an answer holds only event pairs captured
\* during the execution that produced the answer.
C5_TraceIsolation ==
    \A i \in DOMAIN messages :
        "trace_events" \in DOMAIN messages[i]
            => /\ messages[i].trace_events # <<>>
               /\ \A n \in DOMAIN messages[i].trace_events :
                     messages[i].trace_events[n].exec = messages[i].exec

\* Two answers with timelines, and a failed execution between them.
C5_TwoAnswersAroundAFailure ==
    \E i, j \in DOMAIN messages :
        /\ i < j
        /\ "trace_events" \in DOMAIN messages[i]
        /\ "trace_events" \in DOMAIN messages[j]
        /\ messages[i].exec + 1 < messages[j].exec

\* C12: while a query executes the history is not touched, and a query that
\* raises ends the script run with the history as it was when the query
\* started: the user message last, no message of that execution in it.
C12_FailedQueryLeavesHistory ==
    [][/\ appPc \in {"bind", "retrieve", "synth"} => messages' = messages
       /\ (appPc \in {"retrieve", "synth"} /\ appPc' = "idle")
             => /\ messages' = messages
                /\ Last(messages').role = "user"
                /\ appLocal' = NoLocal
                /\ \A i \in DOMAIN messages' :
                      "exec" \in DOMAIN messages'[i] => messages'[i].exec # execNo
      ]_vars

\* A query has failed after its events were captured: the run is over, the
\* question is the last message, the captured pairs are in no message.
C12_FailedAfterCapture ==
    /\ appPc = "idle"
    /\ execNo >= 2
    /\ Last(messages).role = "user"
    /\ slot # <<>>
    /\ Len(handlers[slot[1]]) = Len(RetrievalKinds) + Len(SynthesisKinds)
    /\ \E i \in DOMAIN messages : "trace_events" \in DOMAIN messages[i]

\* The executions that ended without an answer (raised, or were stopped).
FailedExecs ==
    execNo - Cardinality({i \in DOMAIN messages : "exec" \in DOMAIN messages[i]})
           - (IF appPc \in {"retrieve", "synth", "store"} THEN 1 ELSE 0)

\* C17: an execution starts only when the last message is a user message; a
\* successful one appends one assistant message with its own timeline, right
\* after the question it answers; the history only grows at its end; and while
\* no execution has failed, user and assistant messages alternate after the
\* greeting.
C17_OneAnswerPerQuestion ==
    /\ [][execNo' # execNo
             => (messages # <<>> /\ Last(messages).role = "user" /\ messages' = messages)]_vars
    /\ [][appPc = "store" /\ appPc' # appPc
             => /\ Len(messages') = Len(messages) + 1
                /\ Last(messages').role = "assistant"
                /\ Last(messages').exec = execNo
                /\ Last(messages').trace_events = GetEventPairs(appLocal.llama_debug)]_vars
    /\ [][/\ Len(messages') >= Len(messages)
          /\ SubSeq(messages', 1, Len(messages)) = messages]_vars
    /\ [](\A j \in DOMAIN messages :
             "trace_events" \in DOMAIN messages[j]
                => /\ j > 1
                   /\ messages[j - 1].role = "user"
                   /\ messages[j].content = <<"answer", messages[j - 1].content>>)
    /\ [](FailedExecs = 0
             => \A j \in DOMAIN messages :
                   messages[j].role = (IF j % 2 = 1 THEN "assistant" ELSE "user"))

\* Two questions asked and answered, and a rerun after the second answer that
\* executed nothing.
C17_TwoQuestionsTwoAnswers ==
    /\ appPc = "idle"
    /\ Len(messages) = 5
    /\ execNo = 2
    /\ slot = <<>>
    /\ messages[3].exec = 1 /\ messages[5].exec = 2

InitRender ==
    /\ RagAtRest
    /\ AppAtRest
    /\ timeline = <<>>
    /\ pdfBytes \in BOOLEAN
    /\ renderPc = "build"
    /\ durations = NoDurations
    /\ rendered = <<>>
    /\ CliAtRest
    /\ DisplayAtRest

NextRender == Capture \/ Render

SpecRender == InitRender /\ [][NextRender]_vars

\* The event kind a section of the expander belongs to.
SectionKind ==
    [embedding |-> "embedding", retrieval |-> "retrieve", synthesis |-> "synthesize"]

SectionRank ==
    [notice |-> 0, total |-> 1, embedding |-> 2, retrieval |-> 3, synthesis |-> 4]

HasKind(k) == \E n \in DOMAIN timeline : timeline[n].kind = k

\* C7: a section is rendered only for a kind the timeline holds a pair of,
\* an empty timeline renders the notice alone, and the rendered sections
\* come in the order total duration, embedding, retrieval, synthesis.
C7_SectionsFollowTheTimeline ==
    renderPc = "rendered" =>
        /\ timeline = <<>> => rendered = <<Widget("notice", "warning", <<>>)>>
        /\ timeline # <<>> =>
              /\ \A n \in DOMAIN rendered : rendered[n].section # "notice"
              /\ \A sec \in DOMAIN SectionKind :
                    (\E n \in DOMAIN rendered : rendered[n].section = sec)
                        => HasKind(SectionKind[sec])
              /\ \A m, n \in DOMAIN rendered :
                    m < n => SectionRank[rendered[m].section]
                                 <= SectionRank[rendered[n].section]

\* A timeline with a retrieval and a synthesis pair and no embedding pair has
\* been rendered: two sections shown, the embedding section left out.
C7_EmbeddingLeftOut ==
    /\ renderPc = "rendered"
    /\ ~HasKind("embedding")
    /\ HasKind("retrieve") /\ HasKind("synthesize")
    /\ \E m, n \in DOMAIN rendered :
          rendered[m].section = "retrieval" /\ rendered[n].section = "synthesis"

\* The gap between two of the timestamps above, worked out by hand: whole
\* seconds (rounded down) and the microseconds on top.
Gap(start, end) ==
    CASE <<start, end>> = <<NewYear, NewYearLater>> -> [sec |-> 1, us |-> 500000]
      [] <<start, end>> = <<NewYear, NewYear>> -> [sec |-> 0, us |-> 0]
      [] <<start, end>> = <<OldYearEnd, NewYear>> -> [sec |-> 0, us |-> 750000]
      [] <<start, end>> = <<NewYearLater, NewYear>> -> [sec |-> -2, us |-> 500000]
      [] <<start, end>> = <<LeapDay, MarchFirst>> -> [sec |-> 86400, us |-> 50]

\* C8: the duration of a kind is end minus start of the first pair of that
\* kind (1.5 s for a query pair from 00:00:00.000000 to 00:00:01.500000), and
\* is None, not zero, when the timeline has no pair of that kind.
C8_DurationOfFirstPair ==
    renderPc = "rendered" =>
        \A k \in Kinds :
            LET ofKind == SelectSeq(timeline, LAMBDA pr : pr.kind = k)
            IN /\ ofKind = <<>> => durations[k] = None
               /\ ofKind # <<>> =>
                     LET gap == Gap(ofKind[1].start, ofKind[1].end)
                     IN /\ durations[k] = [ok |-> TRUE, sec |-> gap.sec, us |-> gap.us]
                        /\ (k = "query" /\ gap = [sec |-> 1, us |-> 500000])
                              => rendered[1] = Widget("total", "info", <<15000>>)
               /\ (k = "query" /\ ofKind = <<>>)
                     => \A n \in DOMAIN rendered : rendered[n].section # "total"

\* A rendered timeline whose first query pair lasts 1.5 s, whose second query
\* pair lasts something else, and which has no embedding pair.
C8_FirstOfTwoQueryPairs ==
    /\ renderPc = "rendered"
    /\ Len(timeline) >= 2
    /\ timeline[1].kind = "query" /\ timeline[2].kind = "query"
    /\ <<timeline[1].start, timeline[1].end>> = <<NewYear, NewYearLater>>
    /\ <<timeline[2].start, timeline[2].end>> = <<NewYear, NewYear>>
    /\ durations["query"] = [ok |-> TRUE, sec |-> 1, us |-> 500000]
    /\ ~durations["embedding"].ok


\* The command is started on a file or on a directory of documents.
InitCli ==
    /\ RagAtRest
    /\ AppAtRest
    /\ RenderAtRest
    /\ inputPath \in Inputs
    /\ cliPc = "main"
    /\ pathList = <<>>
    /\ fileNames = <<>>
    /\ totalPages = 0
    /\ attempted = {}
    /\ logged = {}
    /\ shown = FALSE
    /\ parsed = <<>>
    /\ DisplayAtRest

NextCli == Dispatch \/ ReadFn \/ CountPages \/ Show \/ DoParse

SpecCli == InitCli /\ [][NextCli]_vars

\* C9: when parse_doc is over, every document of the batch has been
\* attempted, whatever failed on another document.
C9_EveryDocumentAttempted ==
    cliPc = "done" => \A n \in DOMAIN pathList : pathList[n] \in attempted

\* Every required environment value is set.
Init ==
    /\ environ = RequiredVars
    /\ InitFiles
    /\ AppAtRest
    /\ RenderAtRest
    /\ CliAtRest
    /\ DisplayAtRest

Spec == Init /\ [][Next]_vars

\* The environment is complete, lacks one value, or is empty; the files stay.
InitConfig ==
    /\ environ \in Environs
    /\ InitFiles
    /\ AppAtRest
    /\ RenderAtRest
    /\ CliAtRest
    /\ DisplayAtRest

NextConfig == ProcStep(1)

SpecConfig == InitConfig /\ [][NextConfig]_vars

(***************************************************************************)
(* Claims about enrichment, the index and the reference map                *)
(***************************************************************************)
RawPaths == {"open_raw", "read_raw", "write_enriched"}

\* C1: whatever fields the raw records carry, the enriched file written by
\* an enrichment has the length and order of the raw file, its record at
\* 0-based position i has chunk_id "chunk_i", and the chunk_ids are pairwise
\* distinct.
C1_EnrichAssignsPositionalIds ==
    "write_enriched" \in io =>
        LET raw == rawFile.data
            out == enrichedFile.data
        IN /\ Len(out) = Len(raw)
           /\ \A n \in 1..Len(raw) :
                 /\ out[n]["chunk_id"] = ChunkId(n - 1)
                 /\ \A k \in DOMAIN raw[n] \ {"chunk_id"} : out[n][k] = raw[n][k]
           /\ \A m, n \in 1..Len(out) : m # n => out[m]["chunk_id"] # out[n]["chunk_id"]

\* C2: once the enriched file exists, no step of either entry point changes
\* it or opens the raw file, whatever has become of the raw file.
C2_EnrichmentIdempotent ==
    [][(enrichedFile.exists /\ io' # {"env"})
          => (enrichedFile' = enrichedFile /\ io' \cap RawPaths = {})]_vars

\* An enrichment was skipped although the raw file no longer yields the enriched file.
C2_SkippedOnStaleFile ==
    /\ "skip_enrich" \in io
    /\ enrichedFile.exists
    /\ rawFile.exists
    /\ EnrichCore(rawFile.data) # enrichedFile.data
    /\ EnrichPipeline(rawFile.data) # enrichedFile.data

C6_StoredIdsAreMapKeys ==
    \A p \in Procs :
        proc[p].pc \in {"ready", "mr_ready"} => StoredIds \subseteq DOMAIN proc[p].refmap

\* C6 as amended: the same while the enriched file is the one the
\* collection was populated from.
C6_StoredIdsAreKeysOfIndexedFile ==
    \A p \in Procs :
        (proc[p].pc \in {"ready", "mr_ready"} /\ enrichedFile = indexedFrom)
            => StoredIds \subseteq DOMAIN proc[p].refmap

\* A warm start of the page over a populated collection and its enriched file.
C6_WarmSessionSeen ==
    /\ proc[1].pc = "ready"
    /\ proc[1].coll
    /\ ~proc[1].sawEmpty
    /\ StoredIds # {}
    /\ enrichedFile = indexedFrom

InitDisplay ==
    /\ RagAtRest
    /\ AppAtRest
    /\ RenderAtRest
    /\ CliAtRest
    /\ enabled \in BOOLEAN
    /\ Constructed

NextDisplay == CallShow \/ CallSuccess \/ CallerStep \/ ThreadStep

SpecDisplay == InitDisplay /\ [][NextDisplay]_vars

\* The scheduler lets the refresh thread run, and a call in progress go on.
SpecDisplayFair == SpecDisplay /\ WF_vars(ThreadStep) /\ WF_vars(CallerStep)

\* C14: every status line on the terminal shows the message of one show()
\* call with the major-step flag of that same call.
C14_RepaintMatchesOneCall ==
    \A l \in printed :
        l.by \in {"thread", "show"}
            => \E n \in DOMAIN calls :
                  /\ calls[n].fn = "show"
                  /\ calls[n].message = l.message
                  /\ calls[n].is_major_step = l.is_major_step

\* C15: once success() has set the stop flag of a started refresh thread,
\* the thread ends; the thread that reads the flag set leaves the loop at
\* once and prints nothing afterwards; and success() gets to print its final
\* line, whether the join ended with the thread or with the timeout.
C15_SuccessStopsTheThread ==
    /\ (stopUpdate /\ updateThread = "thread") ~> (threadPc = "done")
    /\ [][(threadPc = "loop" /\ stopUpdate /\ threadPc' # threadPc)
             => threadPc' = "done"]_vars
    /\ [][threadPc = "done" => (threadPc' = "done" /\ wrote' # "thread")]_vars
    /\ \A m \in 1..MaxCalls :
          (callerPc = "success_stop" /\ callerArgs.message = m)
              ~> (callerPc = "idle" /\ Line("success", m, FALSE) \in printed)

\* success() has returned after a join that timed out, its final line is on
\* the terminal after a repaint of the thread, and the thread has ended.
C15_ReturnedAfterTimeout ==
    /\ joined = "timeout"
    /\ callerPc = "idle"
    /\ threadPc = "done"
    /\ \E l \in printed : l.by = "success"
    /\ \E l \in printed : l.by = "thread"

ShowCalls == {n \in DOMAIN calls : calls[n].fn = "show"}

\* C16: at most one refresh thread is ever created, and by the first show()
\* of an enabled displayer; a later show() prints its own message at once and
\* creates nothing; a thread that has ended is not started again; a disabled
\* displayer creates no thread and prints nothing.
C16_AtMostOneThread ==
    /\ [](created <= 1)
    /\ [](~enabled => (created = 0 /\ updateThread = "None" /\ printed = {}))
    /\ [][created' # created
             => (callerPc = "show_thread" /\ Cardinality(ShowCalls) = 1)]_vars
    /\ [][(callerPc = "show_thread" /\ Cardinality(ShowCalls) > 1 /\ callerPc' = "idle")
             => /\ created' = created
                /\ wrote' = "show"
                /\ Line("show", callerArgs.message, callerArgs.is_major_step) \in printed']_vars
    /\ [][updateThread = "thread" => updateThread' = "thread"]_vars
    /\ [][threadPc = "done" => threadPc' = "done"]_vars

\* A show() after a success() that ended the thread: its message is printed
\* by the call itself, and there is still the one thread, ended.
C16_ShowAfterSuccess ==
    /\ enabled
    /\ Len(calls) = 3
    /\ calls[1].fn = "show" /\ calls[2].fn = "success" /\ calls[3].fn = "show"
    /\ callerPc = "idle"
    /\ threadPc = "done"
    /\ created = 1
    /\ \E l \in printed : l.by = "show" /\ l.message = 3

\* Two initializing processes on the same files and collection, the files
\* left alone.
InitRace ==
    /\ environ = RequiredVars
    /\ InitFiles
    /\ AppAtRest
    /\ RenderAtRest
    /\ CliAtRest
    /\ DisplayAtRest

NextRace == ProcStep(1) \/ ProcStep(2)

SpecRace == InitRace /\ [][NextRace]_vars

Inserters == {collection[n].by : n \in 1..Len(collection)}

QualifyingCount == Len(SelectQualifying(enrichedFile.data))

\* C13: with two initializers the collection holds no, one or two copies of
\* the qualifying chunks; two copies come from two processes that both saw
\* the count zero, and the records of a single initializer are never more
\* than the qualifying chunks.
C13_DoubleInsertNeedsTwoInitializers ==
    /\ Len(collection) \in {0, QualifyingCount, 2 * QualifyingCount}
    /\ Cardinality(Inserters) <= 1 => Len(collection) <= QualifyingCount
    /\ \A p \in Procs :
          Cardinality({n \in 1..Len(collection) : collection[n].by = p})
              \in {0, QualifyingCount}
    /\ \A p \in Procs :
          (proc[p].pc \in {"rc_fill", "mr_fill"} /\ ~proc[p].sawEmpty)
              => collection # <<>>

\* Both processes counted zero and both inserted: every qualifying chunk is
\* stored twice, once by each process.
C13_BothInserted ==
    /\ QualifyingCount > 0
    /\ Len(collection) = 2 * QualifyingCount
    /\ Inserters = Procs
    /\ \E m, n \in 1..Len(collection) :
          /\ collection[m].chunk_id = collection[n].chunk_id
          /\ collection[m].by # collection[n].by

\* C11: enrichment that finds neither the enriched nor the raw file reports
\* the missing source and returns a failure result to its caller, writing no
\* enriched file and no record; nothing is written for the rest of that
\* invocation; get_reference_map returns the empty map when the enriched file
\* is absent.
C11_MissingSourceIsReported ==
    [][\A p \in Procs :
         /\ ( /\ proc[p].pc \in {"rc_enrich", "mr_enrich"}
              /\ proc'[p] # proc[p]
              /\ ~rawFile.exists /\ ~enrichedFile.exists )
               => /\ "report_not_found" \in io'
                  /\ proc'[p].store = "None"
                  /\ proc'[p].pc \in {"rc_map", "mr_returned"}
                  /\ enrichedFile' = enrichedFile
                  /\ collection' = collection
         /\ ( /\ proc[p].store = "None"
              /\ proc'[p].store = "None"
              /\ proc'[p] # proc[p] )
               => /\ enrichedFile' = enrichedFile
                  /\ collection' = collection
                  /\ proc'[p].pc \in {"stopped", "rc_map", "mr_returned"}
         /\ ( /\ proc[p].pc = "rc_map"
              /\ proc'[p] # proc[p]
              /\ ~enrichedFile.exists )
               => /\ proc'[p].refmap = EmptyMap
                  /\ proc'[p].pc \in {"stopped", "ready"}
      ]_vars

\* The page has stopped on a failed initialization with both files absent,
\* holding an empty reference map and an empty collection.
C11_StoppedOnMissingSource ==
    /\ proc[1].entry = "app"
    /\ proc[1].pc = "stopped"
    /\ proc[1].store = "None"
    /\ proc[1].refmap = EmptyMap
    /\ ~rawFile.exists /\ ~enrichedFile.exists
    /\ collection = <<>>

\* C10: with a required environment value missing, neither entry point
\* builds a model client, opens the collection or attempts a network call.
C10_NothingBuiltOnMissingConfig ==
    \A p \in Procs :
        ~(RequiredVars \subseteq environ)
            => ~proc[p].llm /\ ~proc[p].embed /\ ~proc[p].coll /\ ~proc[p].net

====
